---- MODULE Spec2Model ----
(***************************************************************************)
(* serde-xml-rs, src/ser/mod.rs: the XML Serializer.                       *)
(*                                                                         *)
(* A value is serialized by the serde visitor calling one method of        *)
(* `impl ser::Serializer for &mut Serializer<W>` per node of the value.    *)
(* The model runs that recursion as a machine with an explicit call stack: *)
(* `writer` is the sink (one entry per write! call), `stack` the pending   *)
(* calls and continuations, `err` the Err(..) being returned through `?`.  *)
(* The projectors Seq, Tuple, Map and Struct live in ser/seq.rs,           *)
(* ser/tuples.rs and ser/var.rs; their steps are modelled from the         *)
(* specification (sections 4.2 to 4.5).                                    *)
(***************************************************************************)
EXTENDS Integers, Sequences, FiniteSets, TLC

VARIABLES value, writer, stack, err, result

vars == <<value, writer, stack, err, result>>

(***************************************************************************)
(* Bounds.                                                                 *)
(***************************************************************************)
\* the largest number of nodes (shapes) of a serialized value
MaxNodes == 3

(***************************************************************************)
(* Values: what the visitor (serde's Serialize impls) presents.            *)
(***************************************************************************)
Bool(b) == [shape |-> "bool", b |-> b]
U32(n) == [shape |-> "u32", n |-> n]
Str(s) == [shape |-> "str", s |-> s]
Bytes == [shape |-> "bytes"]
None == [shape |-> "none"]
Unit == [shape |-> "unit"]
Some(v) == [shape |-> "some", inner |-> v]
UnitStruct(name) == [shape |-> "unit_struct", name |-> name]
UnitVariant(name, variant_index, variant) ==
    [shape |-> "unit_variant", name |-> name, variant_index |-> variant_index,
     variant |-> variant]
NewtypeStruct(name, v) == [shape |-> "newtype_struct", name |-> name, inner |-> v]
NewtypeVariant(name, variant_index, variant, v) ==
    [shape |-> "newtype_variant", name |-> name, variant_index |-> variant_index,
     variant |-> variant, inner |-> v]
SeqOf(elems) == [shape |-> "seq", elems |-> elems]
TupleOf(elems) == [shape |-> "tuple", elems |-> elems]
TupleStruct(name, elems) == [shape |-> "tuple_struct", name |-> name, elems |-> elems]
TupleVariant(name, variant_index, variant, elems) ==
    [shape |-> "tuple_variant", name |-> name, variant_index |-> variant_index,
     variant |-> variant, elems |-> elems]
MapOf(entries) == [shape |-> "map", entries |-> entries]
StructOf(name, fields) == [shape |-> "struct", name |-> name, fields |-> fields]
StructVariant(name, variant_index, variant, fields) ==
    [shape |-> "struct_variant", name |-> name, variant_index |-> variant_index,
     variant |-> variant, fields |-> fields]

\* the shapes written by write_primitive / serialize_bool
PrimitiveShapes == {"bool", "u32", "str"}

\* field names of a struct and keys of a map, by position
FieldNames == <<"x", "y", "z", "w", "v", "u">>
KeyNames == <<"a", "hello", "k3", "k4", "k5", "k6">>

Keyed(names, kids) == [i \in 1..Len(kids) |-> [key |-> names[i], v |-> kids[i]]]

Leaves ==
    { Bool(TRUE), Bool(FALSE), U32(5), Str("Bob"), Bytes, None, Unit,
      UnitStruct("Bar"), UnitVariant("E", 0, "A") }

\* a value holding one inner value
Wrapper(kind, v) ==
    IF kind = "some" THEN Some(v)
    ELSE IF kind = "newtype_struct" THEN NewtypeStruct("Baz", v)
    ELSE NewtypeVariant("E", 1, "B", v)

WrapperKinds == {"some", "newtype_struct", "newtype_variant"}

\* a value holding a list of children
Composite(kind, kids) ==
    IF kind = "seq" THEN SeqOf(kids)
    ELSE IF kind = "tuple" THEN TupleOf(kids)
    ELSE IF kind = "tuple_struct" THEN TupleStruct("Foo", kids)
    ELSE IF kind = "tuple_variant" THEN TupleVariant("E", 2, "T", kids)
    ELSE IF kind = "map" THEN MapOf(Keyed(KeyNames, kids))
    ELSE IF kind = "struct" THEN StructOf("Person", Keyed(FieldNames, kids))
    ELSE StructVariant("E", 3, "S", Keyed(FieldNames, kids))

CompositeKinds ==
    {"seq", "tuple", "tuple_struct", "tuple_variant", "map", "struct", "struct_variant"}

RECURSIVE ValuesOfSize(_), KidLists(_), KidListsFrom(_, _)
\* the values of exactly n nodes
ValuesOfSize(n) ==
    IF n <= 0 THEN {}
    ELSE (IF n = 1 THEN Leaves ELSE {})
         \cup { Wrapper(kind, v) : kind \in WrapperKinds, v \in ValuesOfSize(n - 1) }
         \cup { Composite(kind, kids) : kind \in CompositeKinds, kids \in KidLists(n - 1) }
\* the lists of values of m nodes in all
KidLists(m) == IF m <= 0 THEN { <<>> } ELSE KidListsFrom(m, 1)
\* those whose first value has at least k nodes
KidListsFrom(m, k) ==
    IF k > m THEN {}
    ELSE { <<v>> \o rest : v \in ValuesOfSize(k), rest \in KidLists(m - k) }
         \cup KidListsFrom(m, k + 1)

(***************************************************************************)
(* The sink: one entry per write! call, the format string and its argument.*)
(***************************************************************************)
OpenTag(tag) == [fmt |-> "<{}>", arg |-> tag]
CloseTag(tag) == [fmt |-> "</{}>", arg |-> tag]
Text(s) == [fmt |-> "{}", arg |-> s]

\* the bytes one write! call appends
Format(w) ==
    IF w.fmt = "<{}>" THEN "<" \o w.arg \o ">"
    ELSE IF w.fmt = "</{}>" THEN "</" \o w.arg \o ">"
    ELSE w.arg

RECURSIVE Rendered(_)
\* the content of the sink as text
Rendered(ws) == IF ws = <<>> THEN "" ELSE Format(Head(ws)) \o Rendered(Tail(ws))

\* Ok(..): no error is being returned
NoError == "none"

(***************************************************************************)
(* The call stack.  A frame is a pending call (`serialize`, rest = <<v>>), *)
(* the rest of an engine method after its recursive call returns           *)
(* (`write_wrapped`, `field`, `entry`), or the visitor holding a projector *)
(* with the children `rest` still to present (`seq`, `tuple`, `map`,       *)
(* `struct`).  `name` is an Option: <<>> or <<tag>>.                       *)
(***************************************************************************)
NoName == <<>>
Frame(op, name, rest) == [op |-> op, name |-> name, rest |-> rest]
Call(v) == Frame("serialize", NoName, <<v>>)
Top == Head(stack)
\* the argument of the pending call
Arg == Top.rest[1]

\* the visitor is about to call the serializer method for this shape
Calling(shape) ==
    /\ stack # <<>>
    /\ Top.op = "serialize"
    /\ Arg.shape = shape

\* the frame `op` is on top and the call above it has returned
Resuming(op) ==
    /\ stack # <<>>
    /\ Top.op = op

\* return r (NoError for Ok(..)) from the call on top of the stack
Return(r) ==
    /\ stack' = Tail(stack)
    /\ err' = r
    /\ UNCHANGED <<value, writer, result>>

\* replace the call on top of the stack by `frames`, writing nothing
Continue(frames) ==
    /\ stack' = frames \o Tail(stack)
    /\ UNCHANGED <<value, writer, err, result>>

\* write!(self.writer, ..)?  then go on with `frames` in place of the top
\* frame; a sink that refuses the write makes the method return Err(Io)
Emit(w, frames) ==
    \/ /\ writer' = Append(writer, w)
       /\ stack' = frames \o Tail(stack)
       /\ UNCHANGED <<value, err, result>>
    \/ /\ stack' = Tail(stack)
       /\ err' = "Io"
       /\ UNCHANGED <<value, writer, result>>

(***************************************************************************)
(* Serializer methods (impl ser::Serializer for &mut Serializer<W>).       *)
(***************************************************************************)
write_primitive(primitive) == Emit(Text(primitive), <<>>)

\* lines 104-105: the opening tag, then value.serialize(&mut *self)
write_wrapped(tag, v) ==
    Emit(OpenTag(tag), <<Call(v), Frame("write_wrapped", <<tag>>, <<>>)>>)

\* mutant: the closing tag is written although the nested call failed
write_wrapped_return_closing_on_error ==
    /\ Resuming("write_wrapped")
    /\ Emit(CloseTag(Top.name[1]), <<>>)

\* mutant: the closing tag is never written
write_wrapped_return_unclosed ==
    /\ Resuming("write_wrapped")
    /\ Return(err)

\* lines 105-106: `?` on the nested result, then the closing tag
write_wrapped_return ==
    /\ Resuming("write_wrapped")
    /\ IF err # NoError
       THEN Return(err)
       ELSE Emit(CloseTag(Top.name[1]), <<>>)

serialize_bool ==
    /\ Calling("bool")
    /\ IF Arg.b THEN Emit(Text("true"), <<>>) ELSE Emit(Text("false"), <<>>)

serialize_u32 ==
    /\ Calling("u32")
    /\ write_primitive(ToString(Arg.n))

serialize_str ==
    /\ Calling("str")
    /\ write_primitive(Arg.s)

serialize_bytes ==
    /\ Calling("bytes")
    /\ Return("UnsupportedOperation")

serialize_none ==
    /\ Calling("none")
    /\ Return(NoError)

\* mutant: Some(v) handled like None
serialize_some_as_none ==
    /\ Calling("some")
    /\ Return(NoError)

serialize_some ==
    /\ Calling("some")
    /\ Continue(<<Call(Arg.inner)>>)

serialize_unit ==
    /\ Calling("unit")
    /\ Return(NoError)

serialize_unit_struct ==
    /\ Calling("unit_struct")
    /\ write_wrapped(Arg.name, Unit)

\* mutant: the variant name written as an empty element <V></V>
serialize_unit_variant_wrapped ==
    /\ Calling("unit_variant")
    /\ write_wrapped(Arg.variant, Unit)

serialize_unit_variant ==
    /\ Calling("unit_variant")
    /\ write_primitive(Arg.variant)

serialize_newtype_struct ==
    /\ Calling("newtype_struct")
    /\ write_wrapped(Arg.name, Arg.inner)

\* mutant: the tag is the enum name
serialize_newtype_variant_enum_name ==
    /\ Calling("newtype_variant")
    /\ write_wrapped(Arg.name, Arg.inner)

serialize_newtype_variant ==
    /\ Calling("newtype_variant")
    /\ write_wrapped(Arg.variant, Arg.inner)

\* mutant: the sequence gets an enclosing tag of its own
serialize_seq_wrapped ==
    /\ Calling("seq")
    /\ Emit(OpenTag("seq"), <<Frame("tuple", <<"seq">>, Arg.elems)>>)

serialize_seq ==
    /\ Calling("seq")
    /\ Continue(<<Frame("seq", NoName, Arg.elems)>>)

serialize_tuple ==
    /\ Calling("tuple")
    /\ Continue(<<Frame("tuple", NoName, Arg.elems)>>)

serialize_tuple_struct ==
    /\ Calling("tuple_struct")
    /\ Emit(OpenTag(Arg.name), <<Frame("tuple", <<Arg.name>>, Arg.elems)>>)

\* mutant: the tag is the variant name
serialize_tuple_variant_variant_name ==
    /\ Calling("tuple_variant")
    /\ Emit(OpenTag(Arg.variant), <<Frame("tuple", <<Arg.variant>>, Arg.elems)>>)

serialize_tuple_variant ==
    /\ Calling("tuple_variant")
    /\ Emit(OpenTag(Arg.name), <<Frame("tuple", <<Arg.name>>, Arg.elems)>>)

\* mutant: the map opens an enclosing tag of its own
serialize_map_wrapped ==
    /\ Calling("map")
    /\ Emit(OpenTag("map"), <<Frame("map", NoName, Arg.entries)>>)

serialize_map ==
    /\ Calling("map")
    /\ Continue(<<Frame("map", NoName, Arg.entries)>>)

serialize_struct ==
    /\ Calling("struct")
    /\ Emit(OpenTag(Arg.name), <<Frame("struct", <<Arg.name>>, Arg.fields)>>)

\* mutant: the tag is the enum name
serialize_struct_variant_enum_name ==
    /\ Calling("struct_variant")
    /\ Emit(OpenTag(Arg.name), <<Frame("struct", <<Arg.name>>, Arg.fields)>>)

serialize_struct_variant ==
    /\ Calling("struct_variant")
    /\ Emit(OpenTag(Arg.variant), <<Frame("struct", <<Arg.variant>>, Arg.fields)>>)

(***************************************************************************)
(* The projectors (ser/seq.rs, ser/tuples.rs, ser/var.rs).                 *)
(***************************************************************************)
\* a slot of a sequence or tuple takes no bare primitive and no bytes
IsBare(v) == v.shape \in PrimitiveShapes \cup {"bytes"}

\* the visitor's frame once the next child has been presented
Advance == Frame(Top.op, Top.name, Tail(Top.rest))

\* mutant: a slot takes any value
serialize_element_unchecked(v) == Continue(<<Call(v), Advance>>)

serialize_element(v) ==
    IF IsBare(v)
    THEN Return("UnsupportedOperation")
    ELSE Continue(<<Call(v), Advance>>)

Seq_serialize_element ==
    /\ Resuming("seq")
    /\ err = NoError
    /\ Top.rest # <<>>
    /\ serialize_element(Head(Top.rest))

Seq_end ==
    /\ Resuming("seq")
    /\ err = NoError
    /\ Top.rest = <<>>
    /\ Return(NoError)

Tuple_serialize_element ==
    /\ Resuming("tuple")
    /\ err = NoError
    /\ Top.rest # <<>>
    /\ serialize_element(Head(Top.rest))

Tuple_end ==
    /\ Resuming("tuple")
    /\ err = NoError
    /\ Top.rest = <<>>
    /\ IF Top.name # NoName
       THEN Emit(CloseTag(Top.name[1]), <<>>)
       ELSE Return(NoError)

Map_serialize_entry ==
    /\ Resuming("map")
    /\ err = NoError
    /\ Top.rest # <<>>
    /\ LET e == Head(Top.rest)
       IN Emit(OpenTag(e.key), <<Call(e.v), Frame("entry", <<e.key>>, <<>>), Advance>>)

Map_serialize_entry_return ==
    /\ Resuming("entry")
    /\ IF err # NoError
       THEN Return(err)
       ELSE Emit(CloseTag(Top.name[1]), <<>>)

Map_end ==
    /\ Resuming("map")
    /\ err = NoError
    /\ Top.rest = <<>>
    /\ Return(NoError)

Struct_serialize_field ==
    /\ Resuming("struct")
    /\ err = NoError
    /\ Top.rest # <<>>
    /\ LET f == Head(Top.rest)
       IN Emit(OpenTag(f.key), <<Call(f.v), Frame("field", <<f.key>>, <<>>), Advance>>)

Struct_serialize_field_return ==
    /\ Resuming("field")
    /\ IF err # NoError
       THEN Return(err)
       ELSE Emit(CloseTag(Top.name[1]), <<>>)

Struct_end ==
    /\ Resuming("struct")
    /\ err = NoError
    /\ Top.rest = <<>>
    /\ Emit(CloseTag(Top.name[1]), <<>>)

\* the visitor's `?` on a failed child call: it returns without calling end()
Visitor_propagate ==
    /\ stack # <<>>
    /\ Top.op \in {"seq", "tuple", "map", "struct"}
    /\ err # NoError
    /\ Return(err)

\* to_writer: value.serialize(&mut ser) has returned
to_writer ==
    /\ stack = <<>>
    /\ result = "running"
    /\ result' = IF err = NoError THEN "Ok" ELSE "Err"
    /\ UNCHANGED <<value, writer, stack, err>>

\* the serialized value: any value of at most MaxNodes nodes
Init ==
    /\ \E n \in 1..MaxNodes :
          \/ n = 1 /\ value \in Leaves
          \/ \E kind \in WrapperKinds, v \in ValuesOfSize(n - 1) :
                value = Wrapper(kind, v)
          \/ \E kind \in CompositeKinds, kids \in KidLists(n - 1) :
                value = Composite(kind, kids)
    /\ writer = <<>>
    /\ stack = <<Call(value)>>
    /\ err = NoError
    /\ result = "running"

Next ==
    \/ serialize_bool
    \/ serialize_u32
    \/ serialize_str
    \/ serialize_bytes
    \/ serialize_none
    \/ serialize_some
    \/ serialize_unit
    \/ serialize_unit_struct
    \/ serialize_unit_variant
    \/ serialize_newtype_struct
    \/ serialize_newtype_variant
    \/ serialize_seq
    \/ serialize_tuple
    \/ serialize_tuple_struct
    \/ serialize_tuple_variant
    \/ serialize_map
    \/ serialize_struct
    \/ serialize_struct_variant
    \/ write_wrapped_return
    \/ Seq_serialize_element
    \/ Seq_end
    \/ Tuple_serialize_element
    \/ Tuple_end
    \/ Map_serialize_entry
    \/ Map_serialize_entry_return
    \/ Map_end
    \/ Struct_serialize_field
    \/ Struct_serialize_field_return
    \/ Struct_end
    \/ Visitor_propagate
    \/ to_writer

Spec == Init /\ [][Next]_vars

(***************************************************************************)
(* The same methods read as one recursive function over a sink that takes  *)
(* every write (the Vec<u8> of to_string): what value.serialize(&mut ser)  *)
(* has written when it returns, and the error it returns.                  *)
(***************************************************************************)
Ok(out) == [out |-> out, err |-> NoError]
Failed(out, e) == [out |-> out, err |-> e]

\* write_wrapped over the outcome r of the nested call
Wrapped(tag, r) ==
    IF r.err # NoError
    THEN Failed(<<OpenTag(tag)>> \o r.out, r.err)
    ELSE Ok(<<OpenTag(tag)>> \o r.out \o <<CloseTag(tag)>>)

RECURSIVE Proj(_), ProjElems(_), ProjKeyed(_)
Proj(v) ==
    CASE v.shape = "bool" -> Ok(<<Text(IF v.b THEN "true" ELSE "false")>>)
      [] v.shape = "u32" -> Ok(<<Text(ToString(v.n))>>)
      [] v.shape = "str" -> Ok(<<Text(v.s)>>)
      [] v.shape = "bytes" -> Failed(<<>>, "UnsupportedOperation")
      [] v.shape = "none" -> Ok(<<>>)
      [] v.shape = "some" -> Proj(v.inner)
      [] v.shape = "unit" -> Ok(<<>>)
      [] v.shape = "unit_struct" -> Wrapped(v.name, Ok(<<>>))
      [] v.shape = "unit_variant" -> Ok(<<Text(v.variant)>>)
      [] v.shape = "newtype_struct" -> Wrapped(v.name, Proj(v.inner))
      [] v.shape = "newtype_variant" -> Wrapped(v.variant, Proj(v.inner))
      [] v.shape = "seq" -> ProjElems(v.elems)
      [] v.shape = "tuple" -> ProjElems(v.elems)
      [] v.shape = "tuple_struct" -> Wrapped(v.name, ProjElems(v.elems))
      [] v.shape = "tuple_variant" -> Wrapped(v.name, ProjElems(v.elems))
      [] v.shape = "map" -> ProjKeyed(v.entries)
      [] v.shape = "struct" -> Wrapped(v.name, ProjKeyed(v.fields))
      [] v.shape = "struct_variant" -> Wrapped(v.variant, ProjKeyed(v.fields))

\* the elements of a Seq or Tuple, up to the first that fails
ProjElems(elems) ==
    IF elems = <<>> THEN Ok(<<>>)
    ELSE IF IsBare(Head(elems)) THEN Failed(<<>>, "UnsupportedOperation")
    ELSE LET r == Proj(Head(elems))
         IN IF r.err # NoError THEN r
            ELSE LET rest == ProjElems(Tail(elems))
                 IN [out |-> r.out \o rest.out, err |-> rest.err]

\* the fields of a Struct or entries of a Map, up to the first that fails
ProjKeyed(fields) ==
    IF fields = <<>> THEN Ok(<<>>)
    ELSE LET r == Wrapped(Head(fields).key, Proj(Head(fields).v))
         IN IF r.err # NoError THEN r
            ELSE LET rest == ProjKeyed(Tail(fields))
                 IN [out |-> r.out \o rest.out, err |-> rest.err]

\* v serializes without error, and the text it then leaves in the sink
ProjOk(v) == Proj(v).err = NoError
ProjText(v) == Rendered(Proj(v).out)

\* the call stack and the recursive function agree on every value
BigStepAgrees ==
    (result # "running" /\ err # "Io")
        => /\ writer = Proj(value).out
           /\ err = Proj(value).err
           /\ result = (IF ProjOk(value) THEN "Ok" ELSE "Err")

(***************************************************************************)
(* Vocabulary of the properties.                                           *)
(***************************************************************************)
Done == result # "running"
\* the sink took every write it was given
SinkAccepted == err # "Io"

Tag(n) == "<" \o n \o ">"
End(n) == "</" \o n \o ">"

RECURSIVE ElemsText(_), KeyedText(_), Scan(_, _), PendingCloses(_)
\* proj(e1) + ... + proj(ek)
ElemsText(elems) ==
    IF elems = <<>> THEN ""
    ELSE ProjText(Head(elems)) \o ElemsText(Tail(elems))
\* '<k1>' + proj(v1) + '</k1>' + ... + '<kn>' + proj(vn) + '</kn>'
KeyedText(fields) ==
    IF fields = <<>> THEN ""
    ELSE Tag(Head(fields).key) \o ProjText(Head(fields).v) \o End(Head(fields).key)
         \o KeyedText(Tail(fields))

AllOk(elems) == \A i \in DOMAIN elems : ProjOk(elems[i])
AllValuesOk(fields) == \A i \in DOMAIN fields : ProjOk(fields[i].v)

\* the shapes that write a tag pair of their own around their content
TagShapes ==
    {"unit_struct", "newtype_struct", "newtype_variant", "tuple_struct",
     "tuple_variant", "struct", "struct_variant"}
SelfDescribing(v) == v.shape \in TagShapes
\* the name of that tag pair
OwnTag(v) ==
    IF v.shape \in {"newtype_variant", "struct_variant"} THEN v.variant ELSE v.name

\* the tag writes of ws read left to right: `open` the tags not yet closed,
\* innermost last; ok is FALSE once a closing tag does not match the
\* innermost open one
Scan(ws, open) ==
    IF ws = <<>> THEN [ok |-> TRUE, open |-> open]
    ELSE IF Head(ws).fmt = "<{}>" THEN Scan(Tail(ws), Append(open, Head(ws).arg))
    ELSE IF Head(ws).fmt = "</{}>"
         THEN IF open # <<>> /\ open[Len(open)] = Head(ws).arg
              THEN Scan(Tail(ws), SubSeq(open, 1, Len(open) - 1))
              ELSE [ok |-> FALSE, open |-> open]
    ELSE Scan(Tail(ws), open)
WellNested(ws) == Scan(ws, <<>>).ok
Unclosed(ws) == Scan(ws, <<>>).open

\* the closing tags the frames of st still owe, outermost first
PendingCloses(st) ==
    IF st = <<>> THEN <<>>
    ELSE PendingCloses(Tail(st)) \o Head(st).name

IsPrefix(a, b) == Len(a) <= Len(b) /\ SubSeq(b, 1, Len(a)) = a

\* the frame at the bottom of the stack: the visitor of the top-level value
Bottom == stack[Len(stack)]

(***************************************************************************)
(* Properties.                                                             *)
(***************************************************************************)

\* C1: a struct named N, or a struct variant named V, whose fields all
\* serialize, yields '<T>' + '<f1>'proj(v1)'</f1>' + ... + '</T>' with T = N for
\* a struct and T = V (not the enum name) for a struct variant, the fields in
\* declaration order, each child's own output kept inside its field tag.
C1_StructYieldsFields ==
    (/\ Done
     /\ value.shape \in {"struct", "struct_variant"}
     /\ SinkAccepted
     /\ AllValuesOk(value.fields))
        => /\ result = "Ok"
           /\ LET T == IF value.shape = "struct" THEN value.name ELSE value.variant
              IN Rendered(writer) = Tag(T) \o KeyedText(value.fields) \o End(T)

\* a struct variant of two fields, the first a unit struct writing its own tag
C1_Witness ==
    /\ result = "Ok"
    /\ value.shape = "struct_variant"
    /\ Len(value.fields) = 2
    /\ value.fields[1].v.shape = "unit_struct"
    /\ Rendered(writer) = "<S><x><Bar></Bar></x><y>5</y></S>"

\* C2: a sequence, tuple, tuple struct or tuple variant with at least one
\* bare primitive element never returns success, whatever the position of
\* the element, the other elements and the arity; the error is
\* UnsupportedOperation (unless the sink refused a write first).
C2_PrimitiveElementRejected ==
    (/\ Done
     /\ value.shape \in {"seq", "tuple", "tuple_struct", "tuple_variant"}
     /\ \E i \in DOMAIN value.elems : value.elems[i].shape \in PrimitiveShapes)
        => /\ result = "Err"
           /\ SinkAccepted => err = "UnsupportedOperation"

\* a tuple whose second element is the primitive, after a unit struct
C2_Witness ==
    /\ result = "Err"
    /\ err = "UnsupportedOperation"
    /\ value.shape = "tuple"
    /\ Len(value.elems) = 2
    /\ value.elems[1].shape = "unit_struct"
    /\ value.elems[2].shape \in PrimitiveShapes
    /\ Rendered(writer) = "<Bar></Bar>"

\* C3: a tuple struct named N, or a tuple variant of the enum named E, none
\* of whose elements is a bare primitive, yields '<T>' + proj(e1) + ... +
\* proj(ek) + '</T>' with T = N resp. T = E (the enum, not the variant) and
\* no tag per slot; it succeeds when every element serializes; the opening tag
\* is in the sink as soon as the projector exists, bound to the same name.
C3_TupleStructYieldsElements ==
    value.shape \in {"tuple_struct", "tuple_variant"}
        => /\ (/\ result = "Ok"
               /\ \A i \in DOMAIN value.elems : value.elems[i].shape \notin PrimitiveShapes)
                 => Rendered(writer)
                      = Tag(value.name) \o ElemsText(value.elems) \o End(value.name)
           /\ (/\ Done
               /\ SinkAccepted
               /\ \A i \in DOMAIN value.elems : value.elems[i].shape \notin PrimitiveShapes
               /\ AllOk(value.elems))
                 => result = "Ok"
           /\ (stack # <<>> /\ Bottom.op = "tuple")
                 => /\ Bottom.name = <<value.name>>
                    /\ writer # <<>>
                    /\ writer[1] = OpenTag(value.name)

\* a tuple variant of two self-describing elements
C3_Witness ==
    /\ result = "Ok"
    /\ value.shape = "tuple_variant"
    /\ Len(value.elems) = 2
    /\ Rendered(writer) = "<E><Bar></Bar><Bar></Bar></E>"

\* C4: a newtype struct named n, or a newtype variant named n (enum name and
\* index ignored), around a value v that serializes yields
\* '<n>' + proj(v) + '</n>'; nested wrappers nest their tags.
C4_NewtypeYieldsWrapped ==
    (/\ Done
     /\ value.shape \in {"newtype_struct", "newtype_variant"}
     /\ SinkAccepted
     /\ ProjOk(value.inner))
        => /\ result = "Ok"
           /\ LET n == IF value.shape = "newtype_struct" THEN value.name ELSE value.variant
              IN Rendered(writer) = Tag(n) \o ProjText(value.inner) \o End(n)

\* a newtype variant around a newtype struct around a primitive
C4_Witness ==
    /\ result = "Ok"
    /\ value.shape = "newtype_variant"
    /\ value.inner.shape = "newtype_struct"
    /\ Rendered(writer) = "<B><Baz>5</Baz></B>"

\* C5 as claimed: a sequence or anonymous tuple whose elements are all
\* self-describing (each writes its own wrapping tag) succeeds and yields
\* proj(e1) + ... + proj(ek).
C5_AsClaimed ==
    (/\ Done
     /\ value.shape \in {"seq", "tuple"}
     /\ SinkAccepted
     /\ \A i \in DOMAIN value.elems : SelfDescribing(value.elems[i]))
        => /\ result = "Ok"
           /\ Rendered(writer) = ElemsText(value.elems)

\* C5: a sequence or anonymous tuple whose elements are all self-describing
\* and each serialize without error succeeds and yields proj(e1) + ... +
\* proj(ek): source order, no enclosing tag, no separator, nothing written
\* on creating or finishing the projector.
C5_SeqYieldsElements ==
    (/\ Done
     /\ value.shape \in {"seq", "tuple"}
     /\ SinkAccepted
     /\ \A i \in DOMAIN value.elems : SelfDescribing(value.elems[i])
     /\ AllOk(value.elems))
        => /\ result = "Ok"
           /\ Rendered(writer) = ElemsText(value.elems)

\* a sequence of two elements that write their own tags
C5_Witness ==
    /\ result = "Ok"
    /\ value.shape = "seq"
    /\ Len(value.elems) = 2
    /\ value.elems[1].shape = "unit_struct"
    /\ value.elems[2].shape = "unit_struct"
    /\ Rendered(writer) = "<Bar></Bar><Bar></Bar>"

\* C6: a map with string keys yields '<k1>'proj(v1)'</k1>' + ... +
\* '<kn>'proj(vn)'</kn>' for its entries in iteration order, with no tag
\* around the map; it succeeds when every value serializes; creating the map
\* projector writes nothing.
C6_MapYieldsEntries ==
    value.shape = "map"
        => /\ result = "Ok" => Rendered(writer) = KeyedText(value.entries)
           /\ (Done /\ SinkAccepted /\ AllValuesOk(value.entries)) => result = "Ok"
           /\ (stack # <<>> /\ Bottom.op = "map" /\ Bottom.rest = value.entries
                 /\ Len(stack) = 1)
                 => writer = <<>>

\* a map of two entries
C6_Witness ==
    /\ result = "Ok"
    /\ value.shape = "map"
    /\ Len(value.entries) = 2
    /\ Rendered(writer) = "<a>5</a><hello>Bob</hello>"

\* C7: Some(v) serializes as v does (same output, same success or error);
\* None and unit write nothing and succeed; a name around an absent or unit
\* value still writes the empty pair '<name></name>'.
C7_OptionTransparent ==
    /\ (Done /\ value.shape = "some" /\ SinkAccepted)
          => /\ writer = Proj(value.inner).out
             /\ err = Proj(value.inner).err
             /\ result = (IF ProjOk(value.inner) THEN "Ok" ELSE "Err")
    /\ (Done /\ value.shape \in {"none", "unit"})
          => /\ result = "Ok"
             /\ writer = <<>>
    /\ (Done /\ value.shape = "unit_struct" /\ SinkAccepted)
          => /\ result = "Ok"
             /\ Rendered(writer) = Tag(value.name) \o End(value.name)
    /\ (/\ Done
        /\ value.shape = "newtype_struct"
        /\ value.inner.shape \in {"none", "unit"}
        /\ SinkAccepted)
          => /\ result = "Ok"
             /\ Rendered(writer) = Tag(value.name) \o End(value.name)

\* Some around a newtype struct around a primitive
C7_Witness ==
    /\ result = "Ok"
    /\ value.shape = "some"
    /\ value.inner.shape = "newtype_struct"
    /\ Rendered(writer) = "<Baz>5</Baz>"

\* C8: a unit variant V of an enum E serializes to the one text write V: no
\* tag, neither the enum name nor the index; as the value of a struct field
\* f it reads '<f>V</f>', inside a newtype n '<n>V</n>'.
C8_UnitVariantBareText ==
    /\ (Done /\ value.shape = "unit_variant" /\ SinkAccepted)
          => /\ result = "Ok"
             /\ writer = <<Text(value.variant)>>
             /\ Rendered(writer) = value.variant
    /\ (/\ result = "Ok"
        /\ value.shape = "struct"
        /\ Len(value.fields) = 1
        /\ value.fields[1].v.shape = "unit_variant")
          => Rendered(writer)
               = Tag(value.name) \o Tag(value.fields[1].key)
                   \o value.fields[1].v.variant
                   \o End(value.fields[1].key) \o End(value.name)
    /\ (/\ result = "Ok"
        /\ value.shape = "newtype_struct"
        /\ value.inner.shape = "unit_variant")
          => Rendered(writer)
               = Tag(value.name) \o value.inner.variant \o End(value.name)

\* a struct whose one field holds a unit variant
C8_Witness ==
    /\ result = "Ok"
    /\ value.shape = "struct"
    /\ Len(value.fields) = 1
    /\ value.fields[1].v.shape = "unit_variant"
    /\ Rendered(writer) = "<Person><x>A</x></Person>"

\* C9: a failure is final and not rolled back: once a step has failed, the
\* error is handed up unchanged and nothing more is written, no pending
\* closing tag in particular; the text written before stays, so the tags
\* that were open at the failure stay unclosed, and the top-level call
\* returns Err exactly when an error was raised.
C9_Step ==
    /\ err # NoError => (err' = err /\ writer' = writer)
    /\ (err = NoError /\ err' # NoError)
          => /\ writer' = writer
             /\ Unclosed(writer') = PendingCloses(stack)
    /\ result' # "running" => ((result' = "Err") <=> (err' # NoError))
    /\ (/\ result' = "Err"
        /\ err' = "UnsupportedOperation"
        /\ value.shape \in TagShapes)
          => /\ Unclosed(writer') # <<>>
             /\ Unclosed(writer')[1] = OwnTag(value)
C9_FailureIsFinal == [][C9_Step]_vars

\* a struct whose field holds a tuple struct Foo holding a primitive: three
\* opening tags stay in the sink
C9_Witness ==
    /\ result = "Err"
    /\ err = "UnsupportedOperation"
    /\ value.shape = "struct"
    /\ Rendered(writer) = "<Person><x><Foo>"

\* C10: the sink is append-only; at every point each closing tag written
\* matches the innermost tag still open (so closing tags never outnumber
\* opening tags), and when the top-level call returns Ok no tag is left open.
C10_Step ==
    /\ IsPrefix(writer, writer')
    /\ WellNested(writer')
    /\ result' = "Ok" => Unclosed(writer') = <<>>
C10_Balanced == [][C10_Step]_vars

\* a tuple struct around a newtype around a primitive, returned Ok
C10_Witness ==
    /\ result = "Ok"
    /\ value.shape = "tuple_struct"
    /\ Len(value.elems) = 1
    /\ value.elems[1].shape = "newtype_struct"
    /\ Rendered(writer) = "<Foo><Baz>5</Baz></Foo>"
====
